---- MODULE Spec2Model ----
(***************************************************************************)
(* phettest: the build/synchronisation server (phettest/phettest-server.js)*)
(* as a state machine.  One action per HTTP task handler and one per       *)
(* child-process event; continuations (the callback / errCallback          *)
(* closures of the source) are data, run when the 'close' event fires.     *)
(* Strings that are inspected character by character (repository names)   *)
(* are sequences of character codes.                                       *)
(***************************************************************************)
EXTENDS Integers, Sequences, FiniteSets, TLC

\* ------------------------------------------------------------------ bounds
MaxReq == 2          \* requests received by the server in one run
MaxNameLen == 2      \* length of the sim / repo query parameter
MaxExitCode == 1     \* exit codes of a spawned process are 0..MaxExitCode
MaxClicks == 1       \* clicks on the buttons of the dashboard
MaxInFlight == 0     \* requests under way when 'Refresh Perennial' is clicked

\* --------------------------------------------------------- program constants
Hyphen == 45         \* '-'.charCodeAt( 0 )
LowerA == 97         \* 'a'.charCodeAt( 0 )
LowerZ == 122        \* 'z'.charCodeAt( 0 )

ON_WIN == FALSE      \* /^win/.test( process.platform )

\* rootDir + repo is string concatenation: a working directory is the
\* character sequence appended to rootDir, rootDir itself being the empty one
rootDir == <<>>

chipper == <<99, 104, 105, 112, 112, 101, 114>>
perennial == <<112, 101, 114, 101, 110, 110, 105, 97, 108>>
perennialAlias == perennial \o <<45, 97, 108, 105, 97, 115>>

jsonHeaders ==
  [ContentType |-> "application/json", AccessControlAllowOrigin |-> "*"]

\* ------------------------------------------------------------------ inputs
\* characters a name parameter is built from: '-', '`', 'a', '{'
Chars == {45, 96, 97, 123}

Strings == UNION {[1..n -> Chars] : n \in 0..MaxNameLen}

\* what url.parse( req.url, true ).query holds for the parameter a task
\* reads: undefined (absent), a string (given once), an array (given twice)
Queries ==
  {[kind |-> "absent", val |-> <<>>], [kind |-> "array", val |-> <<>>]}
    \cup {[kind |-> "string", val |-> s] : s \in Strings}

NoQuery == [kind |-> "absent", val |-> <<>>]

Paths == {"/build", "/sim-list", "/repo-list", "/perennial-refresh",
          "/pull-all", "/pull", "/same-as-remote-master"}

UnknownPaths == {"/", "/chipper-refresh"}

\* exit codes of a process that was spawned, and the codes the 'close' event
\* carries when the spawn itself failed (-2 is ENOENT, -13 is EACCES)
ExitCodes == 0..MaxExitCode
SpawnErrorCodes == {-2}

\* perennial/data/active-sims and perennial/data/active-repos
getActiveSims == << <<97>>, <<97, 97>> >>
getActiveRepos == << <<97>>, chipper, <<97, 97>> >>

VARIABLES
  requests,    \* requests[r]: [path, query] of the r-th request received
  responses,   \* responses[r]: the responses written to res of request r
  procs,       \* procs[r]: the child processes spawned for request r, in order
  serverUp     \* FALSE once an uncaught exception has ended the node process

\* the dashboard page (phettest.js), one browser tab
VARIABLES
  fleets,      \* fleets[f]: the module state of fleet f ("sim" or "common")
  passes,      \* passes[p]: the p-th call of check{Sim,Common}SameMaster
  ajax,        \* the $.ajax requests not answered yet, in the order of issue
  page         \* the status spans, timers and clicks of the page

serverVars == <<requests, responses, procs, serverUp>>
clientVars == <<fleets, passes, ajax, page>>

vars == <<requests, responses, procs, serverUp, fleets, passes, ajax, page>>

\* ------------------------------------------------------------ text and output
\* a template literal `${pre}${arg}${post}` with one interpolated name
Tpl(pre, arg, post) == [pre |-> pre, arg |-> arg, post |-> post]
Str(s) == Tpl(s, <<>>, "")

\* the JSON body: output is a string (text, followed by " exit code <n>" when
\* exit holds a code) or a list of names
Envelope(status, text, exit, list, success) ==
  [status |-> status, headers |-> jsonHeaders,
   output |-> [text |-> text, exit |-> exit, list |-> list],
   success |-> success]

\* ---------------------------------------------------------- continuations
\* () => { res.writeHead( 200 ); res.end( { output: name, success: true } ) }
successFunction(name) == [k |-> "successFunction", name |-> name]

\* code => { res.writeHead( 500 ); res.end( { output: `${name} exit code ${code}`, success: false } ) }
errorFunction(name) == [k |-> "errorFunction", name |-> name]

\* () => {}
noop == [k |-> "noop"]

\* the response written by successFunction( req, res, name )()
successResponse(name) == Envelope(200, name, <<>>, <<>>, TRUE)

errorResponse_HardCoded(name, code) == Envelope(500, name, <<1>>, <<>>, FALSE)

\* the response written by errorFunction( req, res, name )( code )
errorResponse(name, code) == Envelope(500, name, <<code>>, <<>>, FALSE)

\* a call of execute( cmd, args, cwd, callback, errCallback ), also the arrow
\* function whose body is that call
execute(cmd, args, cwd, callback, errCallback) ==
  [k |-> "execute", cmd |-> <<cmd>> \o args, cwd |-> cwd,
   callback |-> callback, errCallback |-> errCallback]

gruntOutputJS(repo, callback, errCallback) ==
  execute(IF ON_WIN THEN "grunt.cmd" ELSE "grunt", <<"output-js", "--no-color">>,
          rootDir \o repo, callback, errCallback)

pull_ContinueOnFailure(repo, callback, errCallback) ==
  execute("git", <<"pull">>, rootDir \o repo,
          gruntOutputJS(repo, callback, errCallback),
          gruntOutputJS(repo, callback, errCallback))

pull(repo, callback, errCallback) ==
  execute("git", <<"pull">>, rootDir \o repo,
          gruntOutputJS(repo, callback, errCallback), errCallback)

npmUpdate(repo, callback, errCallback) ==
  execute(IF ON_WIN THEN "npm.cmd" ELSE "npm", <<"update">>,
          rootDir \o repo, callback, errCallback)

grunt(repo, callback, errCallback) ==
  execute(IF ON_WIN THEN "grunt.cmd" ELSE "grunt",
          <<"--no-color", "--minify.uglify=false">>,
          rootDir \o repo, callback, errCallback)

gruntOutputJSAll(callback, errCallback) ==
  execute(IF ON_WIN THEN "grunt.cmd" ELSE "grunt",
          <<"output-js-all", "--no-color">>,
          rootDir \o chipper, callback, errCallback)

isSameAsRemoteMaster(repo, sameCallback, differentCallback) ==
  execute("bash", <<"../phetmarks/phettest/same-as-remote-master.sh">>,
          rootDir \o repo, sameCallback, differentCallback)

\* ------------------------------------------------------------ validateSimName
\* the for loop of validateSimName, from index i (1-based here)
RECURSIVE validateLoop_SkipFirst(_, _)
validateLoop_SkipFirst(simName, i) ==
  IF i + 1 > Len(simName) THEN TRUE
  ELSE LET charCode == simName[i + 1] IN
       IF charCode # Hyphen /\ (charCode < LowerA \/ charCode > LowerZ)
       THEN FALSE
       ELSE validateLoop_SkipFirst(simName, i + 1)

RECURSIVE validateLoop(_, _)
validateLoop(simName, i) ==
  IF i > Len(simName) THEN TRUE
  ELSE LET charCode == simName[i] IN
       IF charCode # Hyphen /\ (charCode < LowerA \/ charCode > LowerZ)
       THEN FALSE
       ELSE validateLoop(simName, i + 1)

\* "true" / "false", or "TypeError" when simName.length or simName.charCodeAt
\* cannot be evaluated (undefined has no length; an array has a length of at
\* least 2 and no charCodeAt)
validateSimName(simName) ==
  IF simName.kind = "absent" THEN "TypeError"
  ELSE IF simName.kind = "array" THEN "TypeError"
  ELSE IF validateLoop(simName.val, 1) THEN "true" ELSE "false"

\* ------------------------------------------------------------ processes
\* spawn( cmd, args, { cwd } ): spawned is FALSE when the spawn failed (the
\* 'error' event and then 'close' with a negative code are still to come)
Spawn(call, ok) ==
  [cmd |-> call.cmd, cwd |-> call.cwd,
   callback |-> call.callback, errCallback |-> call.errCallback,
   spawned |-> ok, closed |-> FALSE, code |-> 0, called |-> <<>>]

\* the state of one request as a handler leaves it
Outcome(ps, rs, up) == [procs |-> ps, responses |-> rs, up |-> up]

\* an exception nobody catches (the TypeError of validateSimName, a second
\* writeHead) ends the node process
Throw(ps, rs) == Outcome(ps, rs, FALSE)

\* res.writeHead( ... ); res.end( ... ): writeHead throws when the response
\* was already sent
Write(o, resp) ==
  IF o.responses = <<>> THEN Outcome(o.procs, <<resp>>, o.up)
  ELSE Throw(o.procs, o.responses)

\* calling the continuation fn with argument code
Invoke_SilentSuccess(fn, code, o, ok) ==
  IF fn.k = "execute" THEN Outcome(Append(o.procs, Spawn(fn, ok)), o.responses, o.up)
  ELSE IF fn.k = "errorFunction" THEN Write(o, errorResponse(fn.name, code))
  ELSE o

Invoke(fn, code, o, ok) ==
  IF fn.k = "execute" THEN Outcome(Append(o.procs, Spawn(fn, ok)), o.responses, o.up)
  ELSE IF fn.k = "successFunction" THEN Write(o, successResponse(fn.name))
  ELSE IF fn.k = "errorFunction" THEN Write(o, errorResponse(fn.name, code))
  ELSE o

CloseContinuation_PositiveOnly(p, code) ==
  IF code > 0 THEN [fn |-> "errCallback", k |-> p.errCallback, args |-> <<code>>]
  ELSE [fn |-> "callback", k |-> p.callback, args |-> <<>>]

\* the 'close' listener's choice: if ( code !== 0 ) errCallback( code ) else callback()
CloseContinuation(p, code) ==
  IF code # 0 THEN [fn |-> "errCallback", k |-> p.errCallback, args |-> <<code>>]
  ELSE [fn |-> "callback", k |-> p.callback, args |-> <<>>]

\* process.on( 'close', code => ... ) of process i of a request
OnClose_WhileOthersRun(o, i, code, ok) ==
  LET p == o.procs[i]
      c == CloseContinuation(p, code)
      q == [p EXCEPT !.closed = TRUE, !.code = code,
                     !.called = Append(@, [fn |-> c.fn, args |-> c.args])]
      after == Outcome([o.procs EXCEPT ![i] = q], o.responses, o.up)
  IN IF \E r \in 1..Len(procs) :
          procs[r] # o.procs /\ \E j \in 1..Len(procs[r]) : ~procs[r][j].closed
     THEN after
     ELSE Invoke(c.k, code, after, ok)

OnClose(o, i, code, ok) ==
  LET p == o.procs[i]
      c == CloseContinuation(p, code)
      q == [p EXCEPT !.closed = TRUE, !.code = code,
                     !.called = Append(@, [fn |-> c.fn, args |-> c.args])]
  IN Invoke(c.k, code, Outcome([o.procs EXCEPT ![i] = q], o.responses, o.up), ok)

\* ------------------------------------------------------------------ tasks
Fresh == Outcome(<<>>, <<>>, TRUE)

InvalidName_NoCors(text) ==
  [status |-> 403, headers |-> [ContentType |-> "application/json"],
   output |-> [text |-> Str(text), exit |-> <<>>, list |-> <<>>],
   success |-> FALSE]

InvalidName(text) == Envelope(403, Str(text), <<>>, <<>>, FALSE)

taskBuild_SimFirst(query, ok) ==
  LET simName == query IN
  IF validateSimName(simName) = "TypeError" THEN Throw(<<>>, <<>>)
  ELSE IF validateSimName(simName) = "false"
  THEN Write(Fresh, InvalidName("Invalid sim name"))
  ELSE Write(Invoke(npmUpdate(simName.val,
                      npmUpdate(chipper, grunt(simName.val, noop, noop), noop),
                      noop), 0, Fresh, ok),
             Envelope(200, Str("Build kicked off"), <<>>, <<>>, TRUE))

taskBuild(query, ok) ==
  LET simName == query IN
  IF validateSimName(simName) = "TypeError" THEN Throw(<<>>, <<>>)
  ELSE IF validateSimName(simName) = "false"
  THEN Write(Fresh, InvalidName("Invalid sim name"))
  ELSE Write(Invoke(npmUpdate(chipper,
                      npmUpdate(simName.val, grunt(simName.val, noop, noop), noop),
                      noop), 0, Fresh, ok),
             Envelope(200, Str("Build kicked off"), <<>>, <<>>, TRUE))

taskSimList(query, ok) ==
  Write(Fresh, Envelope(200, Str(""), <<>>, getActiveSims, TRUE))

taskRepoList(query, ok) ==
  Write(Fresh, Envelope(200, Str(""), <<>>, getActiveRepos, TRUE))

\* update( asAlias ) of taskPerennialRefresh
update_SuccessAfterPerennial(asAlias) ==
  LET name == IF asAlias THEN perennialAlias ELSE perennial IN
  pull(name,
    npmUpdate(name,
      execute("bash", <<"perennial/bin/clone-missing-repos.sh">>, rootDir,
        successFunction(Str("perennial and perennial-alias refresh")),
        errorFunction(Tpl("", name, " clone missing repos"))),
      errorFunction(Tpl("", name, " npm update"))),
    errorFunction(Tpl("pull ", name, "")))

RECURSIVE update(_)
update(asAlias) ==
  LET name == IF asAlias THEN perennialAlias ELSE perennial IN
  pull(name,
    npmUpdate(name,
      execute("bash", <<"perennial/bin/clone-missing-repos.sh">>, rootDir,
        IF asAlias
        THEN successFunction(Str("perennial and perennial-alias refresh"))
        ELSE update(TRUE),
        errorFunction(Tpl("", name, " clone missing repos"))),
      errorFunction(Tpl("", name, " npm update"))),
    errorFunction(Tpl("pull ", name, "")))

taskPerennialRefresh(query, ok) == Invoke(update(FALSE), 0, Fresh, ok)

taskPull_Locked(query, ok) ==
  LET simName == query IN
  IF validateSimName(simName) = "TypeError" THEN Throw(<<>>, <<>>)
  ELSE IF validateSimName(simName) = "false"
  THEN Write(Fresh, InvalidName("Invalid sim name"))
  ELSE IF \E r \in 1..Len(procs) : \E j \in 1..Len(procs[r]) :
            ~procs[r][j].closed /\ procs[r][j].cwd = rootDir \o simName.val
  THEN Write(Fresh, Envelope(500, Str("busy"), <<>>, <<>>, FALSE))
  ELSE Invoke(pull(simName.val,
                   successFunction(Tpl("pull ", simName.val, "")),
                   errorFunction(Tpl("pull ", simName.val, ""))), 0, Fresh, ok)

taskPull(query, ok) ==
  LET simName == query IN
  IF validateSimName(simName) = "TypeError" THEN Throw(<<>>, <<>>)
  ELSE IF validateSimName(simName) = "false"
  THEN Write(Fresh, InvalidName("Invalid sim name"))
  ELSE Invoke(pull(simName.val,
                   successFunction(Tpl("pull ", simName.val, "")),
                   errorFunction(Tpl("pull ", simName.val, ""))), 0, Fresh, ok)

taskPullAll_ErrorAsSuccess(query, ok) ==
  Invoke(execute("bash", <<"perennial/bin/pull-all.sh", "-p">>, rootDir,
           gruntOutputJSAll(successFunction(Str("pulled")),
                            successFunction(Str("output-js-all failed"))),
           errorFunction(Str("pull failed"))), 0, Fresh, ok)

taskPullAll(query, ok) ==
  Invoke(execute("bash", <<"perennial/bin/pull-all.sh", "-p">>, rootDir,
           gruntOutputJSAll(successFunction(Str("pulled")),
                            errorFunction(Str("output-js-all failed"))),
           errorFunction(Str("pull failed"))), 0, Fresh, ok)

taskSameAsRemoteMaster_DifferentIsError(query, ok) ==
  LET simName == query IN
  IF validateSimName(simName) = "TypeError" THEN Throw(<<>>, <<>>)
  ELSE IF validateSimName(simName) = "false"
  THEN Write(Fresh, InvalidName("Invalid repo name"))
  ELSE Invoke(isSameAsRemoteMaster(simName.val,
                   successFunction(Str("same")),
                   errorFunction(Str("different"))), 0, Fresh, ok)

taskSameAsRemoteMaster(query, ok) ==
  LET simName == query IN
  IF validateSimName(simName) = "TypeError" THEN Throw(<<>>, <<>>)
  ELSE IF validateSimName(simName) = "false"
  THEN Write(Fresh, InvalidName("Invalid repo name"))
  ELSE Invoke(isSameAsRemoteMaster(simName.val,
                   successFunction(Str("same")),
                   successFunction(Str("different"))), 0, Fresh, ok)

unknownTask_AsSimList(query, ok) == taskSimList(query, ok)

\* the final else of the request listener
unknownTask(query, ok) ==
  Write(Fresh, Envelope(403, Str("Unknown task"), <<>>, <<>>, FALSE))

\* the if / else if chain of the request listener
Dispatch(path, query, ok) ==
  IF path = "/build" THEN taskBuild(query, ok)
  ELSE IF path = "/sim-list" THEN taskSimList(query, ok)
  ELSE IF path = "/repo-list" THEN taskRepoList(query, ok)
  ELSE IF path = "/perennial-refresh" THEN taskPerennialRefresh(query, ok)
  ELSE IF path = "/pull-all" THEN taskPullAll(query, ok)
  ELSE IF path = "/pull" THEN taskPull(query, ok)
  ELSE IF path = "/same-as-remote-master" THEN taskSameAsRemoteMaster(query, ok)
  ELSE unknownTask(query, ok)

\* ================================================================ dashboard
\* The page script: module state per fleet, one record per aggregation pass
\* (the closure of a check...SameMaster call, with its own reposToCheck
\* array), and the $.ajax requests with the continuation each one carries.
Fleets == {"sim", "common"}

\* a table row and the status span in it, created together by one run of the
\* list handler: gen tells the rows of successive table builds apart
El(repo, gen) == [repo |-> repo, gen |-> gen]
NoEl == El(<<>>, 0)

\* what the lists of the server can hold while the page is open
ActiveFiles ==
  { [sims |-> getActiveSims, repos |-> getActiveRepos],
    [sims |-> <<>>, repos |-> <<>>] }

\* results of one /same-as-remote-master request as jQuery hands them over:
\* done( data ) with data.output 'same', 'different' or anything else
CheckOutputs == {"same", "different", "other"}

BlankFleet ==
  [keys |-> <<>>,           \* Object.keys( ...SameMasterStatusElements )
   map |-> <<>>,            \* ...SameMasterStatusElements[ name ] -> { row, status }
   els |-> <<>>,            \* status text / className and row display of each element
   table |-> <<>>,          \* child nodes of the table
   rows |-> <<>>,           \* simRows / commonRows
   outOfDate |-> <<>>,      \* outOfDateSimRows / outOfDateCommonRows
   showAll |-> TRUE,
   showOutOfDate |-> FALSE,
   checkingText |-> "",
   checkingDisplay |-> "",
   gen |-> 0,
   latest |-> <<>>,         \* history: the answer to the check issued last, by name
   prev |-> <<>>]           \* history: the answer known when that check was issued,
                            \* "overlapped" once an earlier check was answered after

\* the spans next to the two buttons above the tables, the status span of each
\* button of the rows, the timers of setTimeout, and what the list files of the
\* server hold at the moment
BlankPage ==
  [pullStatus |-> "", perennialStatus |-> "",
   actionStatus |-> <<>>, timers |-> {}, clicks |-> 0,
   files |-> [sims |-> <<>>, repos |-> <<>>],
   last |-> [kind |-> "", state |-> "", out |-> ""]]  \* history: the answer handled last

\* the client state handed from statement to statement of a handler; exc is
\* TRUE while an exception thrown by a statement unwinds the handler
World(fs, ps, ax, pg) ==
  [fleets |-> fs, passes |-> ps, ajax |-> ax, page |-> pg, exc |-> FALSE]

Has(seq, e) == \E i \in 1..Len(seq) : seq[i] = e

NoneText(f) ==
  IF f = "sim" THEN "No out-of-date simulation repositories!"
  ELSE "No out-of-date common repositories!"

\* updateOutOfDateSims / updateOutOfDateCommon
updateOutOfDate(F) ==
  IF F.showAll THEN F
  ELSE [F EXCEPT !.els =
          [e \in DOMAIN F.els |->
             IF Has(F.outOfDate, e)
             THEN [F.els[e] EXCEPT !.display =
                     IF F.showOutOfDate THEN "table-row" ELSE "none"]
             ELSE F.els[e]]]

\* updateAllSims / updateAllCommon
updateAll(F) ==
  [F EXCEPT !.els =
     [e \in DOMAIN F.els |->
        IF Has(F.rows, e)
        THEN [F.els[e] EXCEPT !.display = IF F.showAll THEN "table-row" ELSE "none"]
        ELSE F.els[e]]]

\* simFilter / commonFilter
filter(F, isFiltered) ==
  LET G == updateAll([F EXCEPT !.showOutOfDate = isFiltered,
                               !.showAll = ~isFiltered,
                               !.checkingDisplay = IF isFiltered THEN "block" ELSE "none"])
  IN IF isFiltered THEN updateOutOfDate(G) ELSE G

\* updateSimCheckingStatus / updateCommonCheckingStatus
updateCheckingStatus(F, f, done) ==
  [F EXCEPT !.checkingText =
     IF done
     THEN IF Len(F.outOfDate) # 0 THEN "" ELSE NoneText(f)
     ELSE "checking..."]

\* remove( array, element )
remove(array, element) == SelectSeq(array, LAMBDA e : e # element)

\* $.ajax( url ) with the continuation data of its done / fail handlers
Ajax(kind, f, repo, pass, el, label, sims) ==
  [kind |-> kind, fleet |-> f, repo |-> repo, pass |-> pass, el |-> el,
   label |-> label, sims |-> sims, stale |-> FALSE]

Send(W, a) == [W EXCEPT !.ajax = Append(@, a)]

\* statusElement text and className
SetStatus(F, el, text, className) ==
  [F EXCEPT !.els[el].text = text, !.els[el].className = className]

\* history of a check of name by pass p: the pass issued it, and it is now the
\* check of name issued last in its fleet
Issued(W, p, name) ==
  LET f == W.passes[p].fleet IN
  [W EXCEPT !.passes[p].issued = Append(@, name),
            !.fleets[f].latest = (name :> "pending") @@ @,
            !.fleets[f].prev =
               IF name \in DOMAIN W.fleets[f].latest /\ W.fleets[f].latest[name] # "pending"
               THEN (name :> W.fleets[f].latest[name]) @@ @ ELSE @,
            !.ajax = [i \in 1..Len(W.ajax) |->
                        IF W.ajax[i].kind = "check" /\ W.ajax[i].fleet = f
                           /\ W.ajax[i].repo = name
                        THEN [W.ajax[i] EXCEPT !.stale = TRUE] ELSE W.ajax[i]]]

\* history of the answer out to check a: its pass has one more result, and
\* if a is the check of its name issued last, out is the answer to that one;
\* if not, the checks of this name did not follow one another
Answered(W, a, out) ==
  [W EXCEPT !.passes[a.pass].recorded = @ + 1,
            !.fleets[a.fleet].latest =
               IF a.stale THEN @ ELSE (a.repo :> out) @@ @,
            !.fleets[a.fleet].prev =
               IF a.stale THEN (a.repo :> "overlapped") @@ @ ELSE @]

\* checkSim( sim ) / checkCommon( commonRepo ) of pass p, up to the $.ajax
\* call; sim is <<>> for undefined (shift() of an empty array)
check(W, p, sim) ==
  LET f == W.passes[p].fleet
      F == W.fleets[f]
  IN IF sim = <<>> \/ sim[1] \notin DOMAIN F.map
     THEN \* ...StatusElements[ sim ] is undefined: TypeError
          [W EXCEPT !.exc = TRUE, !.passes[p].threw = TRUE]
     ELSE LET statusElement == F.map[sim[1]] IN
          Send(Issued([W EXCEPT !.fleets[f] =
                         SetStatus(F, statusElement, "?", "masterStatus")], p, sim[1]),
               Ajax("check", f, sim[1], p, statusElement, "", <<>>))

\* reposToCheck.shift() of pass p, then checkSim of what it returned
checkShifted_NoShift(W, p) ==
  LET todo == W.passes[p].reposToCheck IN
  IF todo = <<>> THEN check(W, p, <<>>) ELSE check(W, p, <<Head(todo)>>)

checkShifted(W, p) ==
  LET todo == W.passes[p].reposToCheck IN
  IF todo = <<>> THEN check(W, p, <<>>)
  ELSE check([W EXCEPT !.passes[p].reposToCheck = Tail(todo)], p, <<Head(todo)>>)

\* checkSimSameMaster( reposToCheck ) / checkCommonSameMaster( reposToCheck );
\* arg is <<>> for undefined, << list >> otherwise
checkSameMaster_TwoAtOnce(W, f, arg) ==
  IF W.exc THEN W
  ELSE LET reposToCheck == IF arg = <<>> THEN W.fleets[f].keys ELSE arg[1]
           p == Len(W.passes) + 1
           V == checkShifted(
                  [W EXCEPT !.passes = Append(@, [fleet |-> f, list |-> reposToCheck,
                                                  reposToCheck |-> reposToCheck,
                                                  issued |-> <<>>, recorded |-> 0,
                                                  done |-> 0, threw |-> FALSE])], p)
       IN IF V.exc \/ V.passes[p].reposToCheck = <<>> THEN V ELSE checkShifted(V, p)

checkSameMaster(W, f, arg) ==
  IF W.exc THEN W
  ELSE LET reposToCheck == IF arg = <<>> THEN W.fleets[f].keys ELSE arg[1]
           p == Len(W.passes) + 1
       IN checkShifted(
            [W EXCEPT !.passes = Append(@, [fleet |-> f, list |-> reposToCheck,
                                            reposToCheck |-> reposToCheck,
                                            issued |-> <<>>, recorded |-> 0,
                                            done |-> 0, threw |-> FALSE])], p)

\* the status the done handler records for data.output
recordOutput_PushOnSame(F, a, output) ==
  IF output = "same"
  THEN [SetStatus(F, a.el, "up-to-date", "masterStatus masterUpToDate")
          EXCEPT !.outOfDate = Append(@, F.map[a.repo])]
  ELSE IF output = "different"
  THEN updateOutOfDate(
         [SetStatus(F, a.el, "out-of-date", "masterStatus masterOutOfDate")
            EXCEPT !.outOfDate = Append(@, F.map[a.repo])])
  ELSE SetStatus(F, a.el, "failed", "masterStatus masterFailed")

recordOutput(F, a, output) ==
  IF output = "same"
  THEN [SetStatus(F, a.el, "up-to-date", "masterStatus masterUpToDate")
          EXCEPT !.outOfDate = remove(@, F.map[a.repo])]
  ELSE IF output = "different"
  THEN updateOutOfDate(
         [SetStatus(F, a.el, "out-of-date", "masterStatus masterOutOfDate")
            EXCEPT !.outOfDate = Append(@, F.map[a.repo])])
  ELSE SetStatus(F, a.el, "failed", "masterStatus masterFailed")

\* if ( reposToCheck.length ) checkSim( reposToCheck.shift() )
\* else updateSimCheckingStatus( true )
nextOrDone_DoneEarly(W, a, output) ==
  IF W.passes[a.pass].reposToCheck # <<>>
  THEN checkShifted([W EXCEPT !.fleets[a.fleet] = updateCheckingStatus(@, a.fleet, TRUE),
                              !.passes[a.pass].done = @ + 1], a.pass)
  ELSE [W EXCEPT !.fleets[a.fleet] = updateCheckingStatus(@, a.fleet, TRUE),
                 !.passes[a.pass].done = @ + 1]

nextOrDone(W, a, output) ==
  IF W.passes[a.pass].reposToCheck # <<>>
  THEN checkShifted(W, a.pass)
  ELSE [W EXCEPT !.fleets[a.fleet] = updateCheckingStatus(@, a.fleet, TRUE),
                 !.passes[a.pass].done = @ + 1]

\* the done handler of the request of checkSim / checkCommon
checkDone_Toggle(W, a, output) ==
  LET F == W.fleets[a.fleet]
      shown == IF output = "different" /\ Has(F.outOfDate, F.map[a.repo])
               THEN "same" ELSE output
  IN nextOrDone(Answered([W EXCEPT !.fleets[a.fleet] = recordOutput(@, a, shown)],
                         a, output), a, output)

checkDone(W, a, output) ==
  nextOrDone(Answered([W EXCEPT !.fleets[a.fleet] = recordOutput(@, a, output)],
                      a, output), a, output)

\* the fail handler: reposToCheck.length && checkSim( reposToCheck.shift() )
checkFail_StopPass(W, a) ==
  Answered([W EXCEPT !.fleets[a.fleet] =
              SetStatus(@, a.el, "failed", "masterStatus masterFailed")],
           a, "fail")

checkFail(W, a) ==
  LET V == Answered([W EXCEPT !.fleets[a.fleet] =
                       SetStatus(@, a.el, "failed", "masterStatus masterFailed")],
                    a, "fail")
  IN IF V.passes[a.pass].reposToCheck # <<>> THEN checkShifted(V, a.pass) ELSE V

\* one iteration of _.each( sims, simName => ... ): the row, its cells, the
\* entry of the status map, and rows.push( tr )
addRow(F, name, gen) ==
  LET tr == El(name, gen) IN
  [F EXCEPT !.table = Append(@, tr),
            !.keys = IF name \in DOMAIN F.map THEN @ ELSE Append(@, name),
            !.map = (name :> tr) @@ @,
            !.els = (tr :> [text |-> "?", className |-> "masterStatus", display |-> ""]) @@ @,
            !.rows = Append(@, tr)]

RECURSIVE addRows(_, _, _)
addRows(F, names, gen) ==
  IF names = <<>> THEN F ELSE addRows(addRow(F, Head(names), gen), Tail(names), gen)

\* the done handler of the list request(s): build the rows of names, show
\* them, start a pass over the whole fleet
listDone(W, f, names) ==
  LET F == W.fleets[f]
      G == updateAll([addRows(F, names, F.gen + 1) EXCEPT !.gen = F.gen + 1])
  IN checkSameMaster([W EXCEPT !.fleets[f] = G], f, <<>>)

\* repos.filter( repo => !_.includes( sims, repo ) )
commonRepos_All(sims, repos) == repos

commonRepos(sims, repos) == SelectSeq(repos, LAMBDA repo : ~Has(sims, repo))

\* updateSims() / updateCommonRepos(), up to their $.ajax call
updateTable_ForgetsEntries(W, f) ==
  IF W.exc THEN W
  ELSE Send([W EXCEPT !.fleets[f].table = <<>>,
                      !.fleets[f].map = <<>>,
                      !.fleets[f].keys = <<>>],
            Ajax(IF f = "sim" THEN "sim-list" ELSE "sim-list-common",
                 f, <<>>, 0, NoEl, "", <<>>))

updateTable(W, f) ==
  IF W.exc THEN W
  ELSE Send([W EXCEPT !.fleets[f].table = <<>>],
            Ajax(IF f = "sim" THEN "sim-list" ELSE "sim-list-common",
                 f, <<>>, 0, NoEl, "", <<>>))

\* the statements that end the script, also run when a refresh is done:
\* updateCommonRepos(); updateSims(); update...CheckingStatus( false )
reload(W) ==
  LET V == updateTable(updateTable(W, "common"), "sim") IN
  [V EXCEPT !.fleets = [f \in Fleets |-> updateCheckingStatus(V.fleets[f], f, FALSE)]]

\* the script as a whole: reload, then commonFilter( false ); simFilter( false )
pageLoad(W) ==
  LET V == reload(W) IN
  [V EXCEPT !.fleets = [f \in Fleets |-> filter(V.fleets[f], FALSE)]]

\* ------------------------------------------------------------------ actions
Init ==
  /\ requests = <<>>
  /\ responses = <<>>
  /\ procs = <<>>
  /\ serverUp = TRUE
  /\ fleets = [f \in Fleets |-> BlankFleet]
  /\ passes = <<>>
  /\ ajax = <<>>
  /\ page = BlankPage

\* the request listener runs for a new request
Receive(path, query, ok) ==
  /\ serverUp
  /\ Len(requests) < MaxReq
  /\ LET o == Dispatch(path, query, ok) IN
       /\ requests' = Append(requests, [path |-> path, query |-> query])
       /\ procs' = Append(procs, o.procs)
       /\ responses' = Append(responses, o.responses)
       /\ serverUp' = o.up
       /\ UNCHANGED clientVars

\* a request of a task that reads a name parameter
RequestWithName ==
  \E path \in {"/build", "/pull", "/same-as-remote-master"}, query \in Queries,
     ok \in BOOLEAN : Receive(path, query, ok)

\* a request of a task that reads no parameter
RequestWithoutName ==
  \E path \in {"/sim-list", "/repo-list", "/perennial-refresh", "/pull-all"},
     ok \in BOOLEAN : Receive(path, NoQuery, ok)

RequestUnknown ==
  \E path \in UnknownPaths : Receive(path, NoQuery, TRUE)

\* the event(s) of process i of request r, the last one being 'close' with code
Closes(r, i, code, ok) ==
  LET o == OnClose(Outcome(procs[r], responses[r], serverUp), i, code, ok) IN
    /\ procs' = [procs EXCEPT ![r] = o.procs]
    /\ responses' = [responses EXCEPT ![r] = o.responses]
    /\ serverUp' = o.up
    /\ UNCHANGED requests
    /\ UNCHANGED clientVars

\* a spawned process exits and its stdio closes: 'close' with its exit code
ProcessClose ==
  \E r \in 1..Len(requests) : \E i \in 1..Len(procs[r]) :
    \E code \in ExitCodes, ok \in BOOLEAN :
      /\ serverUp
      /\ procs[r][i].spawned /\ ~procs[r][i].closed
      /\ Closes(r, i, code, ok)

\* the spawn failed: 'error' (logged by the listener), then 'close' with the
\* negative error number
ProcessSpawnError ==
  \E r \in 1..Len(requests) : \E i \in 1..Len(procs[r]) :
    \E code \in SpawnErrorCodes, ok \in BOOLEAN :
      /\ serverUp
      /\ ~procs[r][i].spawned /\ ~procs[r][i].closed
      /\ Closes(r, i, code, ok)

Next ==
  \/ RequestWithName
  \/ RequestWithoutName
  \/ RequestUnknown
  \/ ProcessClose
  \/ ProcessSpawnError

Spec == Init /\ [][Next]_vars

\* ------------------------------------------------------- dashboard actions
Cur == World(fleets, passes, ajax, page)

\* A row that a later build of the table replaced is in no document and in
\* no entry of the status map: nothing reads what it shows, and the model does
\* not keep it
Detached == [text |-> "", className |-> "", display |-> ""]

Untrack(F) ==
  [F EXCEPT !.els =
     [e \in DOMAIN F.els |->
        IF Has(F.table, e) \/ (\E name \in DOMAIN F.map : F.map[name] = e)
        THEN F.els[e] ELSE Detached]]

\* the state a handler leaves behind, an exception it threw included: what
\* it did before the throw stays done
Commit(W) ==
  /\ fleets' = [f \in Fleets |-> Untrack(W.fleets[f])]
  /\ passes' = W.passes
  /\ ajax' = W.ajax
  /\ page' = W.page
  /\ UNCHANGED serverVars

\* request i is answered: it leaves the requests under way
Settle(W, i, state, out) ==
  [W EXCEPT !.ajax = SubSeq(@, 1, i - 1) \o SubSeq(@, i + 1, Len(@)),
            !.page.last = [kind |-> W.ajax[i].kind, state |-> state, out |-> out]]

\* the page right after its script ran, the list requests of both tables
\* under way
ClientInit ==
  /\ requests = <<>>
  /\ responses = <<>>
  /\ procs = <<>>
  /\ serverUp = TRUE
  /\ \E files \in ActiveFiles :
       LET W == pageLoad(World([f \in Fleets |-> BlankFleet], <<>>, <<>>,
                               [BlankPage EXCEPT !.files = files]))
       IN /\ fleets = W.fleets
          /\ passes = W.passes
          /\ ajax = W.ajax
          /\ page = W.page

\* /sim-list answered for updateSims
SimListDone ==
  \E i \in 1..Len(ajax) :
    /\ ajax[i].kind = "sim-list"
    /\ Commit(listDone(Settle(Cur, i, "done", "list"), "sim", page.files.sims))

\* /sim-list answered for updateCommonRepos: ask for /repo-list
CommonSimListDone ==
  \E i \in 1..Len(ajax) :
    /\ ajax[i].kind = "sim-list-common"
    /\ Commit(Send(Settle(Cur, i, "done", "list"),
                   Ajax("repo-list", "common", <<>>, 0, NoEl, "", page.files.sims)))

\* /repo-list answered
RepoListDone ==
  \E i \in 1..Len(ajax) :
    /\ ajax[i].kind = "repo-list"
    /\ Commit(listDone(Settle(Cur, i, "done", "list"), "common",
                       commonRepos(ajax[i].sims, page.files.repos)))

\* a list request that fails has no handler
ListFail ==
  \E i \in 1..Len(ajax) :
    /\ ajax[i].kind \in {"sim-list", "sim-list-common", "repo-list"}
    /\ Commit(Settle(Cur, i, "fail", ""))

\* /same-as-remote-master answered with a 2xx status
CheckDone ==
  \E i \in 1..Len(ajax), output \in CheckOutputs :
    /\ ajax[i].kind = "check"
    /\ Commit(checkDone(Settle(Cur, i, "done", output), ajax[i], output))

\* /same-as-remote-master answered with another status, or not at all
CheckFail ==
  \E i \in 1..Len(ajax) :
    /\ ajax[i].kind = "check"
    /\ Commit(checkFail(Settle(Cur, i, "fail", ""), ajax[i]))

\* click on 'Pull All'
ClickPullAll ==
  /\ page.clicks < MaxClicks
  /\ Commit(Send([Cur EXCEPT !.page.pullStatus = "pulling...", !.page.clicks = @ + 1],
                 Ajax("pull-all", "", <<>>, 0, NoEl, "", <<>>)))

\* the done handler of /pull-all
pullAllDone(W) ==
  checkSameMaster(checkSameMaster([W EXCEPT !.page.pullStatus = ""], "common", <<>>),
                  "sim", <<>>)

PullAllDone ==
  \E i \in 1..Len(ajax) :
    /\ ajax[i].kind = "pull-all"
    /\ Commit(pullAllDone(Settle(Cur, i, "done", "")))

PullAllFail ==
  \E i \in 1..Len(ajax) :
    /\ ajax[i].kind = "pull-all"
    /\ Commit([Settle(Cur, i, "fail", "") EXCEPT !.page.pullStatus = "pull failed"])

\* click on 'Refresh Perennial'
ClickRefresh ==
  /\ page.clicks < MaxClicks
  /\ Len(ajax) <= MaxInFlight
  /\ Commit(Send([Cur EXCEPT !.page.perennialStatus = "refreshing perennial",
                             !.page.clicks = @ + 1],
                 Ajax("perennial-refresh", "", <<>>, 0, NoEl, "", <<>>)))

\* the done handler of /perennial-refresh; the refresh may have brought new
\* list files
RefreshDone ==
  \E i \in 1..Len(ajax), files \in ActiveFiles :
    /\ ajax[i].kind = "perennial-refresh"
    /\ Commit(reload([Settle(Cur, i, "done", "")
                        EXCEPT !.page.perennialStatus = "", !.page.files = files]))

RefreshFail ==
  \E i \in 1..Len(ajax) :
    /\ ajax[i].kind = "perennial-refresh"
    /\ Commit([Settle(Cur, i, "fail", "")
                 EXCEPT !.page.perennialStatus = "perennial refresh failed"])

\* the buttons of a row
Labels(f) == IF f = "sim" THEN {"Pull", "Build"} ELSE {"Pull"}

ActionKey(el, label) == [el |-> el, label |-> label]

SetActionStatus(W, key, text) ==
  [W EXCEPT !.page.actionStatus = (key :> text) @@ @]

\* click on a button of a row that is in its table
ClickAction ==
  \E f \in Fleets :
    \E n \in 1..Len(fleets[f].table), label \in Labels(f) :
      LET el == fleets[f].table[n] IN
      /\ page.clicks < MaxClicks
      /\ Commit(Send(SetActionStatus([Cur EXCEPT !.page.clicks = @ + 1],
                                     ActionKey(el, label), "running"),
                     Ajax("action", f, el.repo, 0, el, label, <<>>)))

\* what the done handler of a button shows for data.success
SuccessMessage(f, label) ==
  IF f = "sim" /\ label = "Build" THEN "Build successfully kicked off." ELSE ""

\* the done handler of a button: its status span, then a pass over this
\* repository alone
actionDone(W, a, success) ==
  LET key == ActionKey(a.el, a.label)
      V == IF success
           THEN IF a.fleet = "sim"
                THEN [SetActionStatus(W, key, SuccessMessage(a.fleet, a.label))
                        EXCEPT !.page.timers = @ \cup {key}]
                ELSE SetActionStatus(W, key, "")
           ELSE SetActionStatus(W, key, "failed")
  IN checkSameMaster(V, a.fleet, << <<a.repo>> >>)

ActionDone ==
  \E i \in 1..Len(ajax), success \in BOOLEAN :
    /\ ajax[i].kind = "action"
    /\ Commit(actionDone(Settle(Cur, i, "done", IF success THEN "true" ELSE "false"),
                         ajax[i], success))

ActionFail ==
  \E i \in 1..Len(ajax) :
    /\ ajax[i].kind = "action"
    /\ Commit(SetActionStatus(Settle(Cur, i, "fail", ""),
                              ActionKey(ajax[i].el, ajax[i].label), "failed"))

\* setTimeout( () => status.text( '' ), delaySuccessTime )
Timeout ==
  \E key \in page.timers :
    Commit(SetActionStatus([Cur EXCEPT !.page.timers = @ \ {key}], key, ""))

\* the page with clicks on 'Pull All' and on the buttons of the rows
ClientNext ==
  \/ SimListDone
  \/ CommonSimListDone
  \/ RepoListDone
  \/ ListFail
  \/ CheckDone
  \/ CheckFail
  \/ ClickPullAll
  \/ PullAllDone
  \/ PullAllFail
  \/ ClickAction
  \/ ActionDone
  \/ ActionFail
  \/ Timeout

ClientSpec == ClientInit /\ [][ClientNext]_vars

\* the page with all its buttons
RefreshNext ==
  \/ SimListDone
  \/ CommonSimListDone
  \/ RepoListDone
  \/ ListFail
  \/ CheckDone
  \/ CheckFail
  \/ ClickPullAll
  \/ PullAllDone
  \/ PullAllFail
  \/ ClickAction
  \/ ActionDone
  \/ ActionFail
  \/ Timeout
  \/ ClickRefresh
  \/ RefreshDone
  \/ RefreshFail

RefreshSpec == ClientInit /\ [][RefreshNext]_vars

\* 'change' of a filter radio button of fleet f: it fires when the button
\* becomes the selected one of its group
ClickFilter ==
  \E f \in Fleets, isFiltered \in BOOLEAN :
    /\ fleets[f].showOutOfDate # isFiltered
    /\ Commit([Cur EXCEPT !.fleets[f] = filter(@, isFiltered)])

\* the page with its filters and 'Pull All'
FilterNext ==
  \/ SimListDone
  \/ CommonSimListDone
  \/ RepoListDone
  \/ ListFail
  \/ CheckDone
  \/ CheckFail
  \/ ClickPullAll
  \/ PullAllDone
  \/ PullAllFail
  \/ ClickFilter

FilterSpec == ClientInit /\ [][FilterNext]_vars

\* ============================================================ index-server
\* phettest/index-server.js, the server of the first phettest page. It keeps
\* the same kind of state as phettest-server.js (requests, responses, child
\* processes), so the same variables hold it; its /pull-all is a loop over the
\* active repositories and its execute has no 'error' listener.

\* what chipper/data/active-repos can hold when a request reads it
ixGetActiveRepos == {SubSeq(getActiveRepos, 1, n) : n \in 0..Len(getActiveRepos)}

\* function( code ) { res.writeHead( 500 ); res.end( name + ' exit code ' + code ) }
ixErrorFunction(name) == [k |-> "errorFunction", name |-> name]

\* function() { step(); } with the repos array as the closure holds it
ixStepCallback(repos) == [k |-> "step", repos |-> repos]

ixExecute(cmd, args, cwd, callback, errCallback) ==
  [k |-> "execute", cmd |-> <<cmd>> \o args, cwd |-> cwd,
   callback |-> callback, errCallback |-> errCallback]

ixPull(repo, callback, errCallback) ==
  ixExecute("git", <<"pull">>, rootDir \o repo, callback, errCallback)

\* step() of taskPullAll: pull the next repository, or answer 'pulled'
ixStep(repos, o, ok) ==
  IF repos # <<>>
  THEN LET repo == Head(repos) IN
       Outcome(Append(o.procs,
                      Spawn(ixPull(repo, ixStepCallback(Tail(repos)),
                                   ixErrorFunction(Tpl("pull ", repo, ""))), ok)),
               o.responses, o.up)
  ELSE Write(o, Envelope(200, Str("pulled"), <<>>, <<>>, TRUE))

\* calling a continuation of index-server.js with argument code
ixInvoke(fn, code, o, ok) ==
  IF fn.k = "step" THEN ixStep(fn.repos, o, ok)
  ELSE IF fn.k = "errorFunction"
  THEN Write(o, Envelope(500, fn.name, <<code>>, <<>>, FALSE))
  ELSE o

\* process.on( 'close', function( code ) { ... } ) of process i of a request
ixOnClose(o, i, code, ok) ==
  LET p == o.procs[i]
      fn == IF code # 0 THEN "errCallback" ELSE "callback"
      q == [p EXCEPT !.closed = TRUE, !.code = code,
                     !.called = Append(@, [fn |-> fn,
                                           args |-> IF code # 0 THEN <<code>> ELSE <<>>])]
  IN ixInvoke(IF code # 0 THEN p.errCallback ELSE p.callback, code,
              Outcome([o.procs EXCEPT ![i] = q], o.responses, o.up), ok)

\* taskPullAll of index-server.js
ixTaskPullAll(repos, ok) == ixStep(repos, Fresh, ok)

\* a /pull-all request arrives; repos is what getActiveRepos() reads
IndexPullAll ==
  \E repos \in ixGetActiveRepos, ok \in BOOLEAN :
    /\ serverUp
    /\ Len(requests) < MaxReq
    /\ LET o == ixTaskPullAll(repos, ok) IN
         /\ requests' = Append(requests, [path |-> "/pull-all", query |-> NoQuery,
                                          repos |-> repos])
         /\ procs' = Append(procs, o.procs)
         /\ responses' = Append(responses, o.responses)
         /\ serverUp' = o.up
         /\ UNCHANGED clientVars

\* a git pull exits and its stdio closes
IndexProcessClose ==
  \E r \in 1..Len(requests) : \E i \in 1..Len(procs[r]) :
    \E code \in ExitCodes, ok \in BOOLEAN :
      /\ serverUp
      /\ procs[r][i].spawned /\ ~procs[r][i].closed
      /\ LET o == ixOnClose(Outcome(procs[r], responses[r], serverUp), i, code, ok) IN
           /\ procs' = [procs EXCEPT ![r] = o.procs]
           /\ responses' = [responses EXCEPT ![r] = o.responses]
           /\ serverUp' = o.up
           /\ UNCHANGED requests
           /\ UNCHANGED clientVars

\* the spawn failed: the child emits 'error', execute registered no listener
\* for it, so the event is thrown as an exception nobody catches
IndexSpawnError ==
  \E r \in 1..Len(requests) : \E i \in 1..Len(procs[r]) :
    /\ serverUp
    /\ ~procs[r][i].spawned /\ ~procs[r][i].closed
    /\ serverUp' = FALSE
    /\ UNCHANGED <<requests, responses, procs>>
    /\ UNCHANGED clientVars

IndexNext ==
  \/ IndexPullAll
  \/ IndexProcessClose
  \/ IndexSpawnError

IndexSpec == Init /\ [][IndexNext]_vars

\* ================================================================ properties
ReqIds == 1..Len(requests)

Pipelines == {"/pull", "/build", "/pull-all", "/perennial-refresh"}
NameTasks == {"/build", "/pull", "/same-as-remote-master"}

\* a-z and '-'
NameChars == {45} \cup (97..122)

HasBadChar(s) == \E i \in 1..Len(s) : s[i] \notin NameChars

\* the request carries the parameters its task needs, and they are valid
ValidParams(r) ==
  requests[r].path \in NameTasks =>
    /\ requests[r].query.kind = "string"
    /\ ~HasBadChar(requests[r].query.val)

Failed(p) == p.closed /\ p.code # 0
ExitedZero(p) == p.closed /\ p.code = 0

\* the steps of each pipeline, in the order the interface declares them
Step(cmd, cwd) == [cmd |-> cmd, cwd |-> cwd]

RefreshSteps(name) ==
  << Step(<<"git", "pull">>, name),
     Step(<<"grunt", "output-js", "--no-color">>, name),
     Step(<<"npm", "update">>, name),
     Step(<<"bash", "perennial/bin/clone-missing-repos.sh">>, <<>>) >>

DeclaredSteps(req) ==
  LET name == req.query.val IN
  CASE req.path = "/pull" ->
         << Step(<<"git", "pull">>, name),
            Step(<<"grunt", "output-js", "--no-color">>, name) >>
    [] req.path = "/build" ->
         << Step(<<"npm", "update">>, chipper),
            Step(<<"npm", "update">>, name),
            Step(<<"grunt", "--no-color", "--minify.uglify=false">>, name) >>
    [] req.path = "/pull-all" ->
         << Step(<<"bash", "perennial/bin/pull-all.sh", "-p">>, <<>>),
            Step(<<"grunt", "output-js-all", "--no-color">>, chipper) >>
    [] req.path = "/perennial-refresh" ->
         RefreshSteps(perennial) \o RefreshSteps(perennialAlias)
    [] req.path = "/same-as-remote-master" ->
         << Step(<<"bash", "../phetmarks/phettest/same-as-remote-master.sh">>, name) >>
    [] OTHER -> <<>>

AllStepsExitedZero(r) ==
  /\ Len(procs[r]) = Len(DeclaredSteps(requests[r]))
  /\ \A i \in 1..Len(procs[r]) : ExitedZero(procs[r][i])

\* C1: fail-fast. In every pipeline, a process that exited with a nonzero code
\* is the last process of its request: no later step is spawned after it.
C1_FailFast ==
  \A r \in ReqIds :
    requests[r].path \in Pipelines =>
      \A i \in 1..Len(procs[r]) : Failed(procs[r][i]) => i = Len(procs[r])

\* step B of a pipeline failed after step A ran, and a step C was still to come
C1_Witness ==
  \E r \in ReqIds :
    /\ requests[r].path \in Pipelines
    /\ Len(procs[r]) >= 2
    /\ Len(procs[r]) < Len(DeclaredSteps(requests[r]))
    /\ Failed(procs[r][Len(procs[r])])

\* C2: the processes of a request are the declared steps, in the declared
\* order; each was spawned after the previous one closed with exit code 0,
\* and at most one process of the request is running.
C2_InOrderOneAtATime ==
  \A r \in ReqIds :
    LET ps == procs[r]
        steps == DeclaredSteps(requests[r])
    IN /\ Len(ps) <= Len(steps)
       /\ \A i \in 1..Len(ps) : ps[i].cmd = steps[i].cmd /\ ps[i].cwd = steps[i].cwd
       /\ \A i \in 1..(Len(ps) - 1) : ExitedZero(ps[i])
       /\ Cardinality({i \in 1..Len(ps) : ~ps[i].closed}) <= 1

\* a pipeline of three steps or more ran to its end, every step exiting 0
C2_Witness ==
  \E r \in ReqIds :
    /\ Len(procs[r]) >= 3
    /\ AllStepsExitedZero(r)

StepLabels(s) ==
  IF s.cmd = <<"git", "pull">> THEN {Tpl("pull ", s.cwd, "")}
  ELSE IF s.cmd = <<"npm", "update">> THEN {Tpl("", s.cwd, " npm update")}
  ELSE IF s.cmd = <<"bash", "perennial/bin/clone-missing-repos.sh">>
    THEN {Tpl("", perennial, " clone missing repos"),
          Tpl("", perennialAlias, " clone missing repos")}
  ELSE IF s.cmd = <<"bash", "perennial/bin/pull-all.sh", "-p">> THEN {Str("pull failed")}
  ELSE IF s.cmd = <<"grunt", "output-js-all", "--no-color">> THEN {Str("output-js-all failed")}
  ELSE {}

\* C4: failure attribution. The output of a failure response names the step
\* whose process exited nonzero, never another step of the pipeline.
C4_FailureNamesFailingStep ==
  \A r \in ReqIds :
    (requests[r].path \in Pipelines /\ responses[r] # <<>>
       /\ ~responses[r][1].success /\ procs[r] # <<>>) =>
      LET steps == DeclaredSteps(requests[r])
          f == Len(procs[r])
      IN /\ Failed(procs[r][f])
         /\ \A j \in 1..Len(steps) :
              (steps[j].cmd # steps[f].cmd) =>
                responses[r][1].output.text \notin StepLabels(steps[j])

\* C5: when a step of /pull, /pull-all or /perennial-refresh exits with a
\* nonzero code n, the response is the failure envelope whose output ends with
\* "exit code n"; when pull-all.sh itself fails, output-js-all is never run.
C5_ExitCodeReported ==
  \A r \in ReqIds :
    requests[r].path \in {"/pull", "/pull-all", "/perennial-refresh"} =>
      /\ \A i \in 1..Len(procs[r]) :
           Failed(procs[r][i]) =>
             /\ Len(responses[r]) = 1
             /\ ~responses[r][1].success
             /\ responses[r][1].status = 500
             /\ responses[r][1].output.exit = <<procs[r][i].code>>
      /\ (requests[r].path = "/pull-all" /\ Failed(procs[r][1])) =>
           Len(procs[r]) = 1

\* /pull-all whose pull-all.sh exited 0 and whose output-js-all exited nonzero
C5_Witness ==
  \E r \in ReqIds :
    /\ requests[r].path = "/pull-all"
    /\ Len(procs[r]) = 2
    /\ ExitedZero(procs[r][1])
    /\ Failed(procs[r][2])
    /\ responses[r] # <<>> /\ ~responses[r][1].success

\* C6: a /pull, /build or /same-as-remote-master request whose name holds a
\* character outside a-z and '-' is answered 403 success:false, and no process
\* is ever spawned for it.
C6_BadNameRejected ==
  \A r \in ReqIds :
    (requests[r].path \in NameTasks /\ requests[r].query.kind = "string"
       /\ HasBadChar(requests[r].query.val)) =>
      /\ Len(responses[r]) = 1
      /\ responses[r][1].status = 403
      /\ ~responses[r][1].success
      /\ procs[r] = <<>>

\* a name whose first character is allowed and whose second is not was
\* rejected, and the server went on to run a process of a later request
C6_Witness ==
  \E r \in ReqIds :
    /\ requests[r].path \in NameTasks /\ requests[r].query.kind = "string"
    /\ Len(requests[r].query.val) = 2
    /\ requests[r].query.val[1] \in NameChars
    /\ requests[r].query.val[2] \notin NameChars
    /\ responses[r] # <<>> /\ responses[r][1].status = 403
    /\ \E r2 \in ReqIds : r2 > r /\ procs[r2] # <<>>

\* C7: a /pull, /build or /same-as-remote-master request without a usable name
\* (parameter absent, or given more than once) is answered with the
\* client-error envelope, spawns nothing, and the server keeps running.
C7_UnusableNameRejected ==
  \A r \in ReqIds :
    (requests[r].path \in NameTasks /\ requests[r].query.kind # "string") =>
      /\ responses[r] # <<>>
      /\ ~responses[r][1].success
      /\ procs[r] = <<>>
      /\ serverUp

\* C8: a request whose path is none of the seven tasks is answered on receipt
\* with 403 'Unknown task' success:false, and no process is spawned.
C8_UnknownTask ==
  \A r \in ReqIds :
    requests[r].path \notin Paths =>
      /\ Len(responses[r]) = 1
      /\ responses[r][1].status = 403
      /\ responses[r][1].output.text = Str("Unknown task")
      /\ ~responses[r][1].success
      /\ procs[r] = <<>>

\* an unknown path was answered while a process of another request was running
C8_Witness ==
  \E r \in ReqIds :
    /\ requests[r].path \notin Paths
    /\ responses[r] # <<>>
    /\ \E r2 \in ReqIds : \E i \in 1..Len(procs[r2]) : ~procs[r2][i].closed

\* the continuation the contract of execute selects for a closed process
Selected(p) == IF p.code = 0 THEN p.callback ELSE p.errCallback

\* C9: execute. No continuation of a process is called before it closes; when
\* it closes exactly one is called, exactly once: callback() iff the code is
\* 0, errCallback( code ) otherwise. Each call of execute spawns one process:
\* a request has one process for the call of its task and one for each
\* selected continuation that is itself a call of execute.
C9_ExactlyOneContinuation ==
  \A r \in ReqIds :
    /\ \A i \in 1..Len(procs[r]) :
         LET p == procs[r][i] IN
           /\ ~p.closed => p.called = <<>>
           /\ ExitedZero(p) => p.called = << [fn |-> "callback", args |-> <<>>] >>
           /\ Failed(p) => p.called = << [fn |-> "errCallback", args |-> <<p.code>>] >>
    /\ procs[r] # <<>> =>
         Len(procs[r]) =
           1 + Cardinality({i \in 1..Len(procs[r]) :
                              procs[r][i].closed /\ Selected(procs[r][i]).k = "execute"})

\* one request saw a process exit 0 and the next one fail
C9_Witness ==
  \E r \in ReqIds :
    /\ Len(procs[r]) >= 2
    /\ ExitedZero(procs[r][1])
    /\ Failed(procs[r][2])
    /\ Len(procs[r][2].called) = 1

\* C10: when a process cannot be spawned, errCallback is called once and the
\* success callback never, the owning request gets a failure response, and
\* the server goes on serving.
C10_SpawnFailureReported ==
  \A r \in ReqIds : \A i \in 1..Len(procs[r]) :
    LET p == procs[r][i] IN
      (p.closed /\ ~p.spawned) =>
        /\ Len(p.called) = 1
        /\ p.called[1].fn = "errCallback"
        /\ responses[r] # <<>>
        /\ ~responses[r][Len(responses[r])].success
        /\ (serverUp \/ \E r2 \in ReqIds : requests[r2].query.kind # "string"
                                           /\ requests[r2].path \in NameTasks)

\* ------------------------------------------------- dashboard: the passes
PassIds == 1..Len(passes)

\* the requests of pass p that are under way
PendingChecks(p) ==
  {i \in 1..Len(ajax) : ajax[i].kind = "check" /\ ajax[i].pass = p}

\* every result of pass p is in
PassComplete(p) ==
  PendingChecks(p) = {} /\ passes[p].recorded = Len(passes[p].issued)

\* C11: a pass issues exactly one same-as-remote-master request for each
\* repository of its list, in the order of the list, and none twice, whatever
\* the results: what it has issued and what it has left to issue are the two
\* parts of its list, and when all its results are in nothing is left.
C11_OneRequestPerRepoInOrder ==
  \A p \in PassIds :
    /\ passes[p].issued \o passes[p].reposToCheck = passes[p].list
    /\ Cardinality(PendingChecks(p)) + passes[p].recorded = Len(passes[p].issued)
    /\ PassComplete(p) => passes[p].issued = passes[p].list

C11_Witness ==
  \E p \in PassIds :
    /\ Len(passes[p].list) = 2
    /\ PassComplete(p)
    /\ passes[p].issued = passes[p].list
    /\ fleets[passes[p].fleet].latest[passes[p].list[1]] = "fail"

\* C12: within one pass at most one request is in flight: the request under
\* way is the one issued last, and the results of all the requests the pass
\* issued before it are in.
C12_OneInFlightPerPass ==
  \A p \in PassIds :
    /\ Cardinality(PendingChecks(p)) <= 1
    /\ \A i \in PendingChecks(p) :
         /\ ajax[i].repo = passes[p].issued[Len(passes[p].issued)]
         /\ passes[p].recorded = Len(passes[p].issued) - 1

C12_Witness ==
  \E p \in PassIds :
    /\ Len(passes[p].list) = 2
    /\ passes[p].recorded = 1
    /\ \E i \in PendingChecks(p) : ajax[i].repo = passes[p].list[2]

\* this step runs the done or the fail handler of check a
Handled(a) ==
  /\ a.kind = "check"
  /\ ~ \E j \in 1..Len(ajax') :
         ajax'[j].kind = "check" /\ ajax'[j].pass = a.pass /\ ajax'[j].repo = a.repo

\* the answer the handler of this step got was a failure: the request failed,
\* or its data.output is neither 'same' nor 'different'
FailureAnswer == page'.last.state = "fail" \/ page'.last.out = "other"

\* the status shown for name in fleet f
Text(f, name) == fleets[f].els[fleets[f].map[name]].text

\* C13: a check that fails marks its own repository 'failed' and nothing
\* else: every other status of the fleet stays as it was, but for the '?' of
\* the repository the pass goes on to, the out-of-date list is unchanged, and
\* when the list of the pass is not exhausted the check of the next repository
\* is issued.
C13_FaultIsolation ==
  [][\A i \in 1..Len(ajax) :
       LET a == ajax[i]
           f == a.fleet
           todo == passes[a.pass].reposToCheck
       IN (Handled(a) /\ FailureAnswer) =>
            /\ fleets'[f].els[a.el].text = "failed"
            /\ \A e \in DOMAIN fleets[f].els \ {a.el} :
                 IF todo # <<>> /\ e = fleets[f].map[Head(todo)]
                 THEN fleets'[f].els[e].text = "?"
                 ELSE fleets'[f].els[e].text = fleets[f].els[e].text
            /\ fleets'[f].outOfDate = fleets[f].outOfDate
            /\ todo # <<>> =>
                 \E j \in 1..Len(ajax') :
                   /\ ajax'[j].kind = "check"
                   /\ ajax'[j].pass = a.pass
                   /\ ajax'[j].repo = Head(todo)]_vars

C13_Witness ==
  \E p \in PassIds :
    LET f == passes[p].fleet IN
    /\ Len(passes[p].list) = 2
    /\ PassComplete(p)
    /\ fleets[f].latest[passes[p].list[1]] \in {"fail", "other"}
    /\ Text(f, passes[p].list[1]) = "failed"
    /\ Text(f, passes[p].list[2]) = "up-to-date"

\* C14: a pass declares Done (update...CheckingStatus( true )) only when
\* the result of every repository of its list is recorded, and only once.
C14_DoneOnlyWhenAllRecorded ==
  \A p \in PassIds :
    /\ passes[p].done <= 1
    /\ passes[p].done > 0 =>
         /\ passes[p].issued = passes[p].list
         /\ passes[p].recorded = Len(passes[p].list)
         /\ PendingChecks(p) = {}

C14_Witness ==
  \E p \in PassIds :
    /\ Len(passes[p].list) = 2
    /\ passes[p].done = 1
    /\ passes[p].recorded = 2

\* C15: a pass all of whose requests have completed has reached Done and
\* put out its summary, whatever the results were, the failure of the check of
\* the last repository of its list included.
C15_CompletedPassIsDone ==
  \A p \in PassIds :
    (passes[p].list # <<>> /\ passes[p].issued = passes[p].list /\ PassComplete(p))
      => /\ passes[p].done = 1
         /\ fleets[passes[p].fleet].checkingText # "checking..."

\* the rows of the names of a list, in the order of the list
RowsOf(f, names) == [i \in 1..Len(names) |-> fleets[f].map[names[i]]]

\* p is the only pass its fleet has seen, and went over the whole fleet
OnlyFullPass(p) ==
  /\ \A q \in PassIds : passes[q].fleet = passes[p].fleet => q = p
  /\ passes[p].list = fleets[passes[p].fleet].keys
  /\ passes[p].list # <<>>

\* C17: after one complete pass from the initial state of a fleet, a
\* repository answered 'same' shows 'up-to-date', one answered 'different'
\* shows 'out-of-date', and the out-of-date list holds exactly the rows of the
\* repositories answered 'different', in the order of the pass.
C17_SinglePassRecordsResults ==
  \A p \in PassIds :
    LET f == passes[p].fleet
        F == fleets[f]
    IN (OnlyFullPass(p) /\ PassComplete(p) /\ passes[p].issued = passes[p].list) =>
         /\ \A name \in DOMAIN F.latest :
              /\ F.latest[name] = "same" => Text(f, name) = "up-to-date"
              /\ F.latest[name] = "different" => Text(f, name) = "out-of-date"
         /\ F.outOfDate =
              RowsOf(f, SelectSeq(passes[p].list, LAMBDA name : F.latest[name] = "different"))

C17_Witness ==
  \E p \in PassIds :
    LET F == fleets[passes[p].fleet] IN
    /\ OnlyFullPass(p) /\ PassComplete(p)
    /\ Len(passes[p].list) = 2
    /\ F.latest[passes[p].list[1]] = "different"
    /\ F.latest[passes[p].list[2]] = "same"
    /\ F.outOfDate = <<F.map[passes[p].list[1]]>>

\* C16: /same-as-remote-master answers 'same' or 'different' only for a
\* script that ran: a success response means the process was spawned and has
\* closed, and says 'same' exactly when the script exited with 0. A script
\* that could not be run is answered with a failure envelope.
C16_CompareReportsScriptResult ==
  \A r \in ReqIds :
    requests[r].path = "/same-as-remote-master" =>
      \A i \in 1..Len(responses[r]) :
        responses[r][i].success =>
          /\ Len(procs[r]) = 1
          /\ procs[r][1].closed
          /\ procs[r][1].spawned
          /\ (responses[r][i].output.text = Str("same")) <=> (procs[r][1].code = 0)

\* the status text the dashboard shows for an answer
StatusOf(out) ==
  IF out = "same" THEN "up-to-date"
  ELSE IF out = "different" THEN "out-of-date"
  ELSE "failed"

\* the checks of fleet f that are under way
FleetChecks(f) ==
  {i \in 1..Len(ajax) : ajax[i].kind = "check" /\ ajax[i].fleet = f}

\* C18: idempotence. When the check of a repository was answered, the
\* repository was then checked again with no other check of it under way, and
\* the second check got the same answer, the status shown is the status of
\* that answer, as after the first check alone.
C18_SameAnswerSameStatus ==
  \A f \in Fleets :
    \A name \in DOMAIN fleets[f].latest \cap DOMAIN fleets[f].prev :
      fleets[f].prev[name] = fleets[f].latest[name]
        => Text(f, name) = StatusOf(fleets[f].latest[name])

C18_Witness ==
  \E f \in Fleets :
    /\ FleetChecks(f) = {}
    /\ Len(fleets[f].keys) = 2
    /\ \A name \in DOMAIN fleets[f].latest :
         /\ name \in DOMAIN fleets[f].prev
         /\ fleets[f].prev[name] = fleets[f].latest[name]
    /\ \E name \in DOMAIN fleets[f].latest :
         fleets[f].latest[name] = "different" /\ Text(f, name) = "out-of-date"

\* every pass of fleet f went over the full list of the fleet
FullPassesOnly(f) ==
  \A p \in PassIds : passes[p].fleet = f => passes[p].list = fleets[f].keys

\* C19: last result wins. When a full pass is triggered again while one is
\* in flight, then once no check of the fleet is in flight the status of each
\* repository is the result of the check of that repository that was issued
\* last, in whatever order the responses came in.
C19_LastIssuedWins ==
  \A f \in Fleets :
    (FullPassesOnly(f) /\ FleetChecks(f) = {}) =>
      \A name \in DOMAIN fleets[f].latest :
        Text(f, name) = StatusOf(fleets[f].latest[name])

Other(f) == IF f = "sim" THEN "common" ELSE "sim"

OfFleet(seq, f) == SelectSeq(seq, LAMBDA x : x.fleet = f)

\* C20: the two fleets hold disjoint state. The common list is the repo
\* list without the names of the sim list, and the step that handles the
\* answer to a check of one fleet changes nothing of the other fleet: no
\* status, row, out-of-date list or checking status, no pass and no request.
C20_DisjointFleets ==
  [][/\ fleets'["common"].keys \in
          {<<>>, SelectSeq(page.files.repos, LAMBDA repo : ~Has(page.files.sims, repo))}
     /\ \A name \in DOMAIN fleets'["common"].map : ~Has(page.files.sims, name)
     /\ \A i \in 1..Len(ajax) :
          Handled(ajax[i]) =>
            LET g == Other(ajax[i].fleet) IN
            /\ fleets'[g] = fleets[g]
            /\ OfFleet(passes', g) = OfFleet(passes, g)
            /\ OfFleet(ajax', g) = OfFleet(ajax, g)]_vars

C20_Witness ==
  /\ FleetChecks("sim") = {} /\ FleetChecks("common") = {}
  /\ fleets["sim"].keys = getActiveSims
  /\ fleets["common"].keys = <<chipper>>
  /\ \A name \in DOMAIN fleets["sim"].latest : Text("sim", name) = "out-of-date"
  /\ Text("common", chipper) = "up-to-date"
  /\ fleets["common"].outOfDate = <<>>
  /\ fleets["common"].checkingText = NoneText("common")
  /\ fleets["sim"].checkingText = ""

\* ------------------------------------------- server: requests side by side
\* the processes of request r that have not closed
OpenProcs(r) == {i \in 1..Len(procs[r]) : ~procs[r][i].closed}

\* the tasks that answer from a continuation of their last process
Awaited == {"/pull", "/pull-all", "/perennial-refresh", "/same-as-remote-master"}

Running(p) == p.spawned /\ ~p.closed

\* C22: requests that name two different repositories cannot race: no
\* process of the one runs in the same working directory as, and at the same
\* time as, a process of the other.
C22_DifferentReposDontShareDir ==
  \A r1, r2 \in ReqIds :
    (/\ r1 # r2
     /\ requests[r1].path \in NameTasks /\ ValidParams(r1)
     /\ requests[r2].path \in NameTasks /\ ValidParams(r2)
     /\ requests[r1].query.val # requests[r2].query.val)
    => \A i \in 1..Len(procs[r1]), j \in 1..Len(procs[r2]) :
         (Running(procs[r1][i]) /\ Running(procs[r2][j]))
           => procs[r1][i].cwd # procs[r2][j].cwd

\* C23: no mutual exclusion per repository: a request with a valid name
\* has its first process spawned when it is received, in the directory its
\* task declares, whatever runs in that directory at the time.
C23_NoMutualExclusion ==
  \A r \in ReqIds :
    (requests[r].path \in NameTasks /\ ValidParams(r)) =>
      /\ procs[r] # <<>>
      /\ procs[r][1].cmd = DeclaredSteps(requests[r])[1].cmd
      /\ procs[r][1].cwd = DeclaredSteps(requests[r])[1].cwd

\* a check of repository X runs in the directory of X while a process of a
\* build or pull of X, requested earlier, runs there
C23_Witness ==
  \E r1, r2 \in ReqIds :
    /\ r1 < r2
    /\ requests[r1].path \in {"/build", "/pull"} /\ ValidParams(r1)
    /\ requests[r2].path = "/same-as-remote-master" /\ ValidParams(r2)
    /\ requests[r1].query.val = requests[r2].query.val
    /\ requests[r1].query.val # <<>>
    /\ \E i \in 1..Len(procs[r1]), j \in 1..Len(procs[r2]) :
         /\ Running(procs[r1][i]) /\ Running(procs[r2][j])
         /\ procs[r1][i].cwd = rootDir \o requests[r1].query.val
         /\ procs[r2][j].cwd = procs[r1][i].cwd

\* the row of a sim and the check of it, to run the handlers of the page on
SampleEl == El(<<97>>, 1)
SampleFleet == addRow(BlankFleet, <<97>>, 1)
SampleCheck == Ajax("check", "sim", <<97>>, 1, SampleEl, "", <<>>)

\* C25: being out of date is not an error. For a valid name, a script that
\* ran and exited with a code other than 0 is answered with the success
\* envelope 'different' (status 200, success true), and the done handler of
\* the dashboard records 'out-of-date' for that answer, not 'failed'.
C25_OutOfDateIsNotAnError ==
  /\ \A r \in ReqIds :
       (/\ requests[r].path = "/same-as-remote-master" /\ ValidParams(r)
        /\ procs[r] # <<>>
        /\ procs[r][1].spawned /\ procs[r][1].closed /\ procs[r][1].code # 0)
       => /\ responses[r] = <<successResponse(Str("different"))>>
          /\ responses[r][1].status = 200
          /\ responses[r][1].success
  /\ LET G == recordOutput(SampleFleet, SampleCheck, "different") IN
       /\ G.els[SampleEl].text = "out-of-date"
       /\ G.els[SampleEl].className = "masterStatus masterOutOfDate"
       /\ G.outOfDate = <<SampleEl>>

C25_Witness ==
  \E r \in ReqIds :
    /\ requests[r].path = "/same-as-remote-master" /\ ValidParams(r)
    /\ procs[r] # <<>>
    /\ procs[r][1].spawned /\ procs[r][1].closed /\ procs[r][1].code = 1
    /\ responses[r] = <<successResponse(Str("different"))>>

\* the processes of request r whose 'close' called a continuation that
\* writes the response
Writers(r) ==
  {i \in 1..Len(procs[r]) :
     /\ procs[r][i].closed
     /\ Selected(procs[r][i]).k \in {"successFunction", "errorFunction"}}

\* C27: no indeterminate and no double terminal state: a request has at
\* most one response, at most one of its processes ends in a continuation that
\* writes one, and a pipeline whose processes have all closed has exactly one.
C27_OneTerminalState ==
  \A r \in ReqIds :
    /\ Len(responses[r]) <= 1
    /\ Cardinality(Writers(r)) <= 1
    /\ (requests[r].path \in Pipelines /\ procs[r] # <<>> /\ OpenProcs(r) = {})
         => Len(responses[r]) = 1

\* a refresh that went through at least three processes, with another request
\* alongside, and ended
C27_Witness ==
  \E r, r2 \in ReqIds :
    /\ r # r2
    /\ requests[r].path = "/perennial-refresh"
    /\ Len(procs[r]) >= 3 /\ OpenProcs(r) = {}
    /\ Len(responses[r]) = 1
    /\ procs[r2] # <<>>

\* C28: every response the server writes carries the header
\* Access-Control-Allow-Origin: *.
C28_CorsOnEveryResponse ==
  \A r \in ReqIds : \A i \in 1..Len(responses[r]) :
    /\ "AccessControlAllowOrigin" \in DOMAIN responses[r][i].headers
    /\ responses[r][i].headers.AccessControlAllowOrigin = "*"

\* an invalid name and a failed process, both answered
C28_Witness ==
  \E r1, r2 \in ReqIds :
    /\ responses[r1] # <<>> /\ responses[r1][1].status = 403
    /\ requests[r1].path \in NameTasks
    /\ responses[r2] # <<>> /\ responses[r2][1].status = 500

\* ------------------------------------------ dashboard: the status entries
\* C26: status entries are created as '?' when a list is loaded and are
\* never deleted: a name that has an entry in the status map keeps one in
\* every step, passes, actions and refreshes included, the keys of the map
\* only grow, and an entry that a step creates or replaces shows '?'.
C26_EntriesNeverDeleted ==
  [][\A f \in Fleets :
       /\ \A name \in DOMAIN fleets[f].map : name \in DOMAIN fleets'[f].map
       /\ Len(fleets'[f].keys) >= Len(fleets[f].keys)
       /\ SubSeq(fleets'[f].keys, 1, Len(fleets[f].keys)) = fleets[f].keys
       /\ DOMAIN fleets'[f].map = {fleets'[f].keys[i] : i \in 1..Len(fleets'[f].keys)}
       /\ \A name \in DOMAIN fleets'[f].map :
            (name \notin DOMAIN fleets[f].map \/ fleets'[f].map[name] # fleets[f].map[name])
              => fleets'[f].els[fleets'[f].map[name]].text = "?"]_vars

\* after a refresh the sim list came back empty: the table has no row, the
\* entries of the sims of the first load are still in the map
C26_Witness ==
  /\ fleets["sim"].gen = 2
  /\ fleets["sim"].table = <<>>
  /\ fleets["sim"].keys = getActiveSims
  /\ \A name \in DOMAIN fleets["sim"].map : Text("sim", name) # "?"

\* ------------------------------------- dashboard: synchronize, then check
\* this step runs the done handler of request a, which is not a check
DoneHandled(a) ==
  /\ \E i \in 1..Len(ajax) : ajax[i] = a
  /\ ~ \E j \in 1..Len(ajax') : ajax'[j] = a
  /\ page'.last.kind = a.kind
  /\ page'.last.state = "done"

\* the answer the handler of this step got
AnswerHandled == IF page'.last.state = "fail" THEN "fail" ELSE page'.last.out

\* when the Pull of a row is done, a pass over that repository alone starts
\* and its check is under way
PullIsFollowedByCheck ==
  \A i \in 1..Len(ajax) :
    LET a == ajax[i] IN
    (a.kind = "action" /\ a.label = "Pull" /\ DoneHandled(a)) =>
      /\ Len(passes') = Len(passes) + 1
      /\ passes'[Len(passes')].list = <<a.repo>>
      /\ \E j \in 1..Len(ajax') :
           /\ ajax'[j].kind = "check" /\ ajax'[j].fleet = a.fleet
           /\ ajax'[j].repo = a.repo /\ ajax'[j].pass = Len(passes')

\* the answer to a check replaces the status of its repository
CheckResultIsRecorded ==
  \A i \in 1..Len(ajax) :
    Handled(ajax[i]) =>
      fleets'[ajax[i].fleet].els[fleets'[ajax[i].fleet].map[ajax[i].repo]].text
        = StatusOf(AnswerHandled)

\* when pull-all is done, a pass over the whole list starts in each fleet
\* that has a list
PullAllIsFollowedByPasses ==
  \A i \in 1..Len(ajax) :
    (ajax[i].kind = "pull-all" /\ DoneHandled(ajax[i])) =>
      \A f \in Fleets :
        fleets[f].keys # <<>> =>
          \E p \in (Len(passes) + 1)..Len(passes') :
            /\ passes'[p].fleet = f
            /\ passes'[p].list = fleets[f].keys
            /\ \E j \in 1..Len(ajax') :
                 /\ ajax'[j].kind = "check" /\ ajax'[j].pass = p
                 /\ ajax'[j].repo = fleets[f].keys[1]

\* C24: a completed synchronize updates the status. When the Pull of a
\* repository is done its check is issued, and the answer to that check
\* replaces the status of the repository; when pull-all is done a full pass
\* starts over both fleets.
C24_SynchronizeUpdatesStatus ==
  [][PullIsFollowedByCheck /\ CheckResultIsRecorded /\ PullAllIsFollowedByPasses]_vars

\* ------------------------------------- dashboard: the out-of-date list
\* how many times e is in seq
Count(seq, e) == Cardinality({i \in 1..Len(seq) : seq[i] = e})

\* C29: derived-set consistency. When no check of a fleet is in flight, the
\* out-of-date list of the fleet holds the row of each repository that shows
\* 'out-of-date' exactly once, and no other row.
C29_OutOfDateListConsistent ==
  \A f \in Fleets :
    FleetChecks(f) = {} =>
      \A name \in DOMAIN fleets[f].map :
        Count(fleets[f].outOfDate, fleets[f].map[name])
          = IF Text(f, name) = "out-of-date" THEN 1 ELSE 0

\* the summary 'No out-of-date ... repositories!' is shown for fleet f only
\* while no repository of f shows 'out-of-date'
SummaryIsTrue(f) ==
  fleets[f].checkingText = NoneText(f) =>
    \A name \in DOMAIN fleets[f].map : Text(f, name) # "out-of-date"

\* a pass that reaches Done in this step while no repository of its fleet
\* shows 'out-of-date' leaves the summary
DoneShowsSummary ==
  \A p \in PassIds :
    LET f == passes[p].fleet IN
    (/\ passes'[p].done = passes[p].done + 1
     /\ \A name \in DOMAIN fleets'[f].map :
          fleets'[f].els[fleets'[f].map[name]].text # "out-of-date")
    => fleets'[f].checkingText = NoneText(f)

\* C30: summary correctness. Whenever the checking status of a fleet shows
\* 'No out-of-date ... repositories!' no repository of the fleet is
\* out of date, and a pass that reaches Done while none is out of date shows
\* that summary.
C30_SummaryCorrect ==
  [][(\A f \in Fleets : SummaryIsTrue(f)') /\ DoneShowsSummary]_vars

\* ------------------------------------ dashboard: passes side by side
\* pass p went over the whole list of its fleet
FullPass(p) ==
  passes[p].list = fleets[passes[p].fleet].keys /\ passes[p].list # <<>>

\* C31: the checking status of a fleet does not go from 'checking...' to the
\* Done summary in a step after which a full pass over the fleet still has
\* repositories it did not visit: a pass over one repository, started by a
\* button of a row, does not declare the fleet Done for the full pass.
C31_NoDoneDuringFullPass ==
  [][\A f \in Fleets :
       (fleets[f].checkingText = "checking..." /\ fleets'[f].checkingText # "checking...")
         => ~\E p \in PassIds :
               /\ passes[p].fleet = f
               /\ FullPass(p)
               /\ passes'[p].reposToCheck # <<>>]_vars

\* C32: in each fleet at most one same-as-remote-master request is in flight
\* at any time, whatever passes over the fleet were started, and a pass that
\* was started again leaves the earlier pass nothing more to issue.
C32_OneInFlightPerFleet ==
  \A f \in Fleets : Cardinality(FleetChecks(f)) <= 1

\* ------------------------------------------- dashboard: after a refresh
\* the table of fleet f was built again and its rows are in place
Repopulated(f) == fleets[f].gen >= 2 /\ fleets[f].table # <<>>

\* the rows kept for the filter are rows of the table as it is now
RowsAreOfTheTable(f) ==
  /\ \A i \in 1..Len(fleets[f].rows) : Has(fleets[f].table, fleets[f].rows[i])
  /\ \A i \in 1..Len(fleets[f].outOfDate) : Has(fleets[f].table, fleets[f].outOfDate[i])

\* the pass over fleet f that was started last
LastPass(f) ==
  CHOOSE p \in PassIds :
    passes[p].fleet = f /\ \A q \in PassIds : passes[q].fleet = f => q <= p

\* the pass started last over fleet f went over the whole fleet, is Done, and
\* every repository of the fleet answered 'same'
AllSameAfterFullPass(f) ==
  /\ FleetChecks(f) = {}
  /\ \E p \in PassIds : passes[p].fleet = f
  /\ FullPass(LastPass(f))
  /\ PassComplete(LastPass(f))
  /\ passes[LastPass(f)].done = 1
  /\ \A i \in 1..Len(fleets[f].keys) :
       /\ fleets[f].keys[i] \in DOMAIN fleets[f].latest
       /\ fleets[f].latest[fleets[f].keys[i]] = "same"

RefreshForgetsOutOfDate(f) ==
  AllSameAfterFullPass(f) =>
    /\ fleets[f].outOfDate = <<>>
    /\ fleets[f].checkingText = NoneText(f)

\* C33: once a refresh has built the table of a fleet again, the rows kept
\* for 'all' and for 'out-of-date' are rows of the new table only, and a
\* complete pass in which every repository answers 'same' ends with an empty
\* out-of-date list and the summary 'No out-of-date ... repositories!',
\* whatever was out of date before the refresh.
C33_RefreshRepopulates ==
  \A f \in Fleets :
    Repopulated(f) => RowsAreOfTheTable(f) /\ RefreshForgetsOutOfDate(f)

\* --------------------------------------------- dashboard: empty lists
\* C34: a pass over an empty list (no simulation, or no common repository,
\* is known) issues no request, raises no error and is Done at once.
C34_EmptyPassIsDone ==
  \A p \in PassIds :
    passes[p].list = <<>> =>
      /\ passes[p].issued = <<>>
      /\ ~passes[p].threw
      /\ passes[p].done = 1

\* ------------------------------------------------ server: where processes run
ActiveRepoDirs == {rootDir \o getActiveRepos[i] : i \in 1..Len(getActiveRepos)}

\* C35: a process spawned for a /pull, /build or /same-as-remote-master
\* request runs in the directory of the repository the request names, a
\* non-empty name of the active repository list, or in chipper for the
\* shared step of a build; a name that is empty or not in the list has no
\* process spawned for it.
C35_ProcessOnlyInActiveRepo ==
  \A r \in ReqIds :
    requests[r].path \in NameTasks =>
      \A i \in 1..Len(procs[r]) :
        procs[r][i].spawned =>
          /\ requests[r].query.kind = "string"
          /\ requests[r].query.val # <<>>
          /\ rootDir \o requests[r].query.val \in ActiveRepoDirs
          /\ procs[r][i].cwd \in {rootDir \o requests[r].query.val, rootDir \o chipper}

\* ------------------------------------------------ server: /perennial-refresh
\* git pull, grunt output-js, npm update in the directory of repo, then the
\* clone-missing-repos script of perennial in the root directory
RefreshOf(repo) ==
  << [cmd |-> <<"git", "pull">>, cwd |-> rootDir \o repo],
     [cmd |-> <<"grunt", "output-js", "--no-color">>, cwd |-> rootDir \o repo],
     [cmd |-> <<"npm", "update">>, cwd |-> rootDir \o repo],
     [cmd |-> <<"bash", "perennial/bin/clone-missing-repos.sh">>, cwd |-> rootDir] >>

RefreshOrder == RefreshOf(perennial) \o RefreshOf(perennialAlias)

RefreshSucceeded(r) ==
  \E i \in 1..Len(responses[r]) : responses[r][i].success

\* C36: /perennial-refresh runs git pull, output-js, npm update and
\* clone-missing-repos for perennial, each after the one before exited 0, and
\* only then the same four for perennial-alias; clone-missing-repos is the
\* script of perennial run in the root directory both times; a step of the
\* perennial sequence that fails is the last process of the request; the
\* success response is 'perennial and perennial-alias refresh' and is written
\* only when all eight steps have exited 0.
C36_PerennialBeforeAlias ==
  \A r \in ReqIds :
    requests[r].path = "/perennial-refresh" =>
      LET ps == procs[r] IN
      /\ Len(ps) <= Len(RefreshOrder)
      /\ \A i \in 1..Len(ps) :
           /\ ps[i].cmd = RefreshOrder[i].cmd
           /\ ps[i].cwd = RefreshOrder[i].cwd
           /\ i > 1 => ExitedZero(ps[i - 1])
      /\ \A i \in 1..Len(ps) :
           (ps[i].cwd = rootDir \o perennialAlias \/ i > 4)
             => \A j \in 1..4 : ExitedZero(ps[j])
      /\ \A i \in 1..Len(ps) : (i <= 4 /\ Failed(ps[i])) => Len(ps) = i
      /\ RefreshSucceeded(r) =>
           /\ Len(ps) = 8
           /\ \A i \in 1..8 : ExitedZero(ps[i])
           /\ responses[r] =
                <<successResponse(Str("perennial and perennial-alias refresh"))>>

\* a refresh went through both sequences and answered, and another one
\* stopped at a failing step of the perennial sequence
C36_Witness ==
  \E r1, r2 \in ReqIds :
    /\ requests[r1].path = "/perennial-refresh"
    /\ Len(procs[r1]) = 8 /\ RefreshSucceeded(r1)
    /\ requests[r2].path = "/perennial-refresh"
    /\ Len(procs[r2]) \in 2..4
    /\ Failed(procs[r2][Len(procs[r2])])
    /\ ~RefreshSucceeded(r2) /\ Len(responses[r2]) = 1

\* ------------------------------------------------ index-server: /pull-all
\* the pulls of request r so far are of the first repositories of its list,
\* in the order of the list, each spawned after the one before exited 0
PullsInListOrder(r) ==
  LET ps == procs[r]
      list == requests[r].repos
  IN /\ Len(ps) <= Len(list)
     /\ \A i \in 1..Len(ps) :
          /\ ps[i].cmd = <<"git", "pull">>
          /\ ps[i].cwd = rootDir \o list[i]
          /\ i > 1 => ExitedZero(ps[i - 1])

\* a pull that exited with another code than 0 is the last one of its
\* request, and the one response of the request is the failure naming it
FailedPullIsReported(r) ==
  \A i \in 1..Len(procs[r]) :
    Failed(procs[r][i]) =>
      /\ i = Len(procs[r])
      /\ responses[r] =
           <<Envelope(500, Tpl("pull ", requests[r].repos[i], ""),
                      <<procs[r][i].code>>, <<>>, FALSE)>>

\* 'pulled' is the response exactly when every repository of the list was
\* pulled and exited 0
PulledIffAllPulled(r) ==
  LET all == /\ Len(procs[r]) = Len(requests[r].repos)
             /\ \A i \in 1..Len(procs[r]) : ExitedZero(procs[r][i])
  IN /\ all => responses[r] = <<Envelope(200, Str("pulled"), <<>>, <<>>, TRUE)>>
     /\ (\E i \in 1..Len(responses[r]) : responses[r][i].success) => all

\* a pull whose spawn failed is reported like one that exited with an error
SpawnFailureIsReported(r) ==
  \A i \in 1..Len(procs[r]) :
    (~procs[r][i].spawned /\ ~serverUp) =>
      /\ Len(responses[r]) = 1
      /\ ~responses[r][1].success
      /\ responses[r][1].output.text = Tpl("pull ", requests[r].repos[i], "")

\* C37: /pull-all of index-server.js pulls the active repositories one at a
\* time in the order of the list, each pull spawned after the one before
\* exited 0; at the first pull that fails it stops and writes one failure
\* response naming that repository; it writes 'pulled' only when every
\* repository was pulled, at once when the list is empty.
C37_PullAllOneAtATime ==
  \A r \in ReqIds :
    /\ Len(responses[r]) <= 1
    /\ PullsInListOrder(r)
    /\ FailedPullIsReported(r)
    /\ PulledIffAllPulled(r)
    /\ SpawnFailureIsReported(r)

\* ------------------------------------------------- dashboard: the filter
\* the row of repository name is shown in the table of fleet f
Displayed(f, name) == fleets[f].els[fleets[f].map[name]].display # "none"

\* C38: showAll and showOutOfDate are complementary, and while the
\* out-of-date filter of a fleet is selected and no check of the fleet is in
\* flight, the rows shown are exactly the rows of the repositories that are
\* out of date: a repository that became 'up-to-date' or 'failed' is not
\* shown, one that became 'out-of-date' is.
C38_FilterShowsOutOfDate ==
  \A f \in Fleets :
    /\ fleets[f].showAll = ~fleets[f].showOutOfDate
    /\ (fleets[f].showOutOfDate /\ FleetChecks(f) = {}) =>
         \A name \in DOMAIN fleets[f].map :
           Displayed(f, name) <=> Text(f, name) = "out-of-date"

====
